---- MODULE Spec2Model ----
(***************************************************************************)
(* The editing engine of rust-editor (src/src/editor.rs, src/src/buffer.rs) *)
(* as a state machine: the fields of Editor, the run loop                  *)
(* check_bounds -> draw, read, handle_event, execute, and the Buffer        *)
(* operations.  A String is a sequence of UTF-8 bytes; u16 arithmetic keeps *)
(* its width.  An arithmetic overflow panics in a debug build and wraps in  *)
(* a release build: every operator computes the wrapped value and raises    *)
(* the flag ovf, and the step that ran it either panics or keeps the        *)
(* wrapped value.  A panic that no build avoids raises the flag panic.      *)
(***************************************************************************)
EXTENDS Integers, Sequences, FiniteSets, TLC

\* the fields of Editor (lines is buffer.lines), the terminal it runs on,
\* the position pc of the run loop, and two history variables: last is the
\* event the last input cycle read with the Action it produced, pre the
\* editor as that cycle found it
VARIABLES lines, size, vtop, vleft, cx, cy, mode, waiting_command,
          undo_actions, terminal, pc, last, pre

vars == <<lines, size, vtop, vleft, cx, cy, mode, waiting_command,
          undo_actions, terminal, pc, last, pre>>

(* ------------------------------ bounds -------------------------------- *)
\* most lines of the file the buffer is loaded from
MaxLines == 2
\* most bytes of text the editor holds (the lines of the buffer and the
\* lines kept on the undo stack)
MaxBytes == 2
\* the width of a terminal narrower than the lines and the status line
NarrowWidth == 1
\* the width of a terminal wide enough for both
WideWidth == 20
\* viewport heights are 1..MaxVHeight (terminal heights 3..MaxVHeight+2)
MaxVHeight == 2
\* the same two for the files of empty lines that the scrolling is followed on
NavMaxLines == 4
NavMaxVHeight == 5
\* most entries of the undo stack
MaxUndo == 1

(* --------------------------- program constants ------------------------ *)
\* cx, cy and size are u16
U16 == 65536
\* the rows reserved below the viewport (status bar)
ReservedRows == 2
\* bytes of the status line's mode label, " NORMAL " or " INSERT "
ModeLabelLen == 8

(* ------------------------------ strings ------------------------------- *)
\* a char is one of these; "e'" stands for U+00E9, two bytes in UTF-8
AsciiChars == {"d"}
WideChar == "e'"
LeadByte == "C3"
ContByte == "A9"

\* char::encode_utf8
Encode(c) == IF c = WideChar THEN <<LeadByte, ContByte>> ELSE <<c>>

\* str::is_char_boundary
is_char_boundary(str, idx) ==
    \/ idx = 0
    \/ idx = Len(str)
    \/ idx < Len(str) /\ str[idx + 1] # ContByte

\* char::len_utf8 of the char that starts at byte idx
len_utf8_at(str, idx) == IF str[idx + 1] = LeadByte THEN 2 ELSE 1

\* the sequences of bytes that are valid UTF-8, by length
RECURSIVE ValidStrings(_)
ValidStrings(n) ==
    IF n = 0 THEN {<<>>}
    ELSE LET shorter == ValidStrings(n - 1)
             ascii == {s \o <<c>> : s \in {t \in shorter : Len(t) = n - 1}, c \in AsciiChars}
             wide == IF n < 2 THEN {}
                     ELSE {s \o Encode(WideChar) : s \in {t \in shorter : Len(t) = n - 2}}
         IN shorter \cup ascii \cup wide

(* ------------------------------ Option -------------------------------- *)
None == [some |-> FALSE, val |-> <<>>]
Some(v) == [some |-> TRUE, val |-> v]

(* ------------------------------ Buffer -------------------------------- *)
\* Buffer::get
get(ls, line) == IF Len(ls) > line THEN Some(ls[line + 1]) ELSE None

\* String::insert: panics unless idx is a char boundary of the string
string_insert(str, idx, c) ==
    IF is_char_boundary(str, idx)
    THEN [str |-> SubSeq(str, 1, idx) \o Encode(c) \o SubSeq(str, idx + 1, Len(str)),
          panic |-> FALSE]
    ELSE [str |-> str, panic |-> TRUE]

\* String::remove: panics at the end of the string and off a char boundary,
\* otherwise removes the whole char that starts at idx
string_remove(str, idx) ==
    IF idx < Len(str) /\ is_char_boundary(str, idx)
    THEN [str |-> SubSeq(str, 1, idx)
                  \o SubSeq(str, idx + len_utf8_at(str, idx) + 1, Len(str)),
          panic |-> FALSE]
    ELSE [str |-> str, panic |-> TRUE]

\* Buffer::insert
insert(ls, x, y, c) ==
    IF y < Len(ls)
    THEN LET r == string_insert(ls[y + 1], x, c)
         IN [lines |-> [ls EXCEPT ![y + 1] = r.str], panic |-> r.panic]
    ELSE [lines |-> ls, panic |-> FALSE]

\* Buffer::remove
remove(ls, x, y) ==
    IF y < Len(ls)
    THEN LET r == string_remove(ls[y + 1], x)
         IN [lines |-> [ls EXCEPT ![y + 1] = r.str], panic |-> r.panic]
    ELSE [lines |-> ls, panic |-> FALSE]

\* Buffer::remove_line
remove_line(ls, line) ==
    IF Len(ls) > line
    THEN SubSeq(ls, 1, line) \o SubSeq(ls, line + 2, Len(ls))
    ELSE ls

insert_line_m(ls, y, contents) ==
    IF Len(ls) >= y
    THEN SubSeq(ls, 1, y) \o <<contents>> \o SubSeq(ls, y + 1, Len(ls))
    ELSE ls

\* Buffer::insert_line
insert_line(ls, y, contents) ==
    IF Len(ls) > y
    THEN SubSeq(ls, 1, y) \o <<contents>> \o SubSeq(ls, y + 1, Len(ls))
    ELSE ls

(* ------------------------------ Editor -------------------------------- *)
\* the editor as a value, for the operators below
Self ==
    [lines |-> lines, size |-> size, vtop |-> vtop, vleft |-> vleft,
     cx |-> cx, cy |-> cy, mode |-> mode, waiting_command |-> waiting_command,
     undo_actions |-> undo_actions, ovf |-> FALSE, panic |-> FALSE]

\* a value leaves the range of u16
overflows_u16(v) == v < 0 \/ v >= U16
\* the value a release build keeps, and `as u16`
wrap_u16(v) == v % U16
\* u16::saturating_sub, usize::saturating_sub
saturating_sub(a, b) == IF a > b THEN a - b ELSE 0

\* Editor::vwidth
vwidth(s) == s.size[1]
\* Editor::vheight (the terminal heights of the model are at least ReservedRows)
vheight(s) == wrap_u16(s.size[2] - ReservedRows)
\* Editor::buffer_line
buffer_line(s) == s.vtop + s.cy
\* Editor::viewport_line
viewport_line(s, n) == get(s.lines, s.vtop + n)
\* Editor::current_line_contents
current_line_contents(s) == get(s.lines, buffer_line(s))
\* Editor::line_length
line_length(s) ==
    LET line == viewport_line(s, s.cy)
    IN IF line.some THEN wrap_u16(Len(line.val)) ELSE 0

\* the decimal digits format!("{}") prints for a u16
digits(n) ==
    IF n < 10 THEN 1 ELSE IF n < 100 THEN 2 ELSE IF n < 1000 THEN 3
    ELSE IF n < 10000 THEN 4 ELSE 5

\* Editor::draw: paints the terminal and leaves the editor alone; the width
\* of the status line's file name, size.0 - mode.len() - pos.len() - 2,
\* overflows on a terminal narrower than the mode label and the position
draw(s) ==
    LET pos_len == 3 + digits(s.cx) + digits(s.cy)
        file_width == s.size[1] - ModeLabelLen - pos_len - 2
    IN [s EXCEPT !.ovf = overflows_u16(file_width)]

\* Editor::check_bounds
check_bounds(s) ==
    LET ll == line_length(s)
        s1 == IF s.cx >= ll
              THEN IF ll > 0 THEN [s EXCEPT !.cx = line_length(s) - 1]
                             ELSE [s EXCEPT !.cx = 0]
              ELSE s
        s2 == IF s1.cx >= vwidth(s1)
              THEN [s1 EXCEPT !.cx = wrap_u16(vwidth(s1) - 1),
                              !.ovf = overflows_u16(vwidth(s1) - 1)]
              ELSE s1
        line_on_buffer == s2.cy + s2.vtop
        len == Len(s2.lines)
    IN IF len = 0
       \* buffer.len() - 1 overflows; wrapped it is usize::MAX, which no
       \* line_on_buffer exceeds
       THEN [s2 EXCEPT !.ovf = TRUE]
       ELSE IF line_on_buffer > len - 1
            THEN [s2 EXCEPT !.cy = wrap_u16(len - s2.vtop - 1),
                            !.ovf = s2.ovf \/ len - s2.vtop - 1 < 0]
            ELSE s2

(* ------------------------------ events -------------------------------- *)
\* KeyCode::Char(c) is written as the char c, every other KeyCode by its name
SpecialCodes ==
    {"Up", "Down", "Left", "Right", "Home", "End", "PageUp", "PageDown",
     "Esc", "Enter", "Tab"}
Key(code, mods) == [type |-> "Key", code |-> code, mods |-> mods, size |-> <<0, 0>>]
Resize(w, h) == [type |-> "Resize", code |-> "", mods |-> "NONE", size |-> <<w, h>>]
FocusGained == [type |-> "FocusGained", code |-> "", mods |-> "NONE", size |-> <<0, 0>>]
NoEvent == [type |-> "NoEvent", code |-> "", mods |-> "NONE", size |-> <<0, 0>>]
is_char(code) == code \notin SpecialCodes

(* ------------------------------ actions ------------------------------- *)
\* enum Action; Option<Action>::None is NoAction
Act(type) == [type |-> type, c |-> "", mode |-> "", y |-> 0, contents |-> None]
NoAction == Act("None")
InsertCharAtCursorPos(c) == [Act("InsertCharAtCursorPos") EXCEPT !.c = c]
EnterMode(m) == [Act("EnterMode") EXCEPT !.mode = m]
SetWaitingCmd(c) == [Act("SetWaitingCmd") EXCEPT !.c = c]
InsertLineAt(y, contents) == [Act("InsertLineAt") EXCEPT !.y = y, !.contents = contents]

(* --------------------------- input dispatch --------------------------- *)
\* handle_waiting_command whose arm for the leader d takes any key
handle_waiting_command_m(cmd, ev) ==
    IF cmd = "d"
    THEN IF ev.type = "Key" THEN Act("DeleteCurrentLine") ELSE NoAction
    ELSE IF cmd = "g"
    THEN IF ev.type = "Key" /\ ev.code = "g" THEN Act("MoveLineToViewportCenter")
         ELSE NoAction
    ELSE NoAction

\* Editor::handle_waiting_command
handle_waiting_command(cmd, ev) ==
    IF cmd = "d"
    THEN IF ev.type = "Key" /\ ev.code = "d" THEN Act("DeleteCurrentLine") ELSE NoAction
    ELSE IF cmd = "g"
    THEN IF ev.type = "Key" /\ ev.code = "g" THEN Act("MoveLineToViewportCenter")
         ELSE NoAction
    ELSE NoAction

\* the keymap of Editor::handle_normal_event
normal_keymap(ev) ==
    IF ev.type # "Key" THEN NoAction
    ELSE LET code == ev.code
         IN IF code = "q" THEN Act("Quit")
            ELSE IF code = "u" THEN Act("Undo")
            ELSE IF code \in {"Up", "k"} THEN Act("MoveUp")
            ELSE IF code \in {"Down", "j"} THEN Act("MoveDown")
            ELSE IF code \in {"Left", "h"} THEN Act("MoveLeft")
            ELSE IF code \in {"Right", "l"} THEN Act("MoveRight")
            ELSE IF code = "i" THEN EnterMode("Insert")
            ELSE IF code \in {"0", "Home"} THEN Act("MoveToLineStart")
            ELSE IF code \in {"$", "End"} THEN Act("MoveToLineEnd")
            ELSE IF code \in {"b", "PageUp"}
                 THEN IF ev.mods = "CONTROL" THEN Act("PageUp") ELSE NoAction
            ELSE IF code \in {"f", "PageDown"}
                 THEN IF ev.mods = "CONTROL" THEN Act("PageDown") ELSE NoAction
            ELSE IF code = "x" THEN Act("DeleteCharAtCursorPos")
            ELSE IF code = "d" THEN SetWaitingCmd("d")
            ELSE IF code = "g" THEN SetWaitingCmd("g")
            ELSE NoAction

\* handle_normal_event that drops a pending leader without giving it the event
handle_normal_event_m(s, ev) ==
    [s |-> [s EXCEPT !.waiting_command = "None"], action |-> normal_keymap(ev)]

\* Editor::handle_normal_event: the editor it leaves and the Action it returns
handle_normal_event(s, ev) ==
    IF s.waiting_command # "None"
    THEN [s |-> [s EXCEPT !.waiting_command = "None"],
          action |-> handle_waiting_command(s.waiting_command, ev)]
    ELSE [s |-> s, action |-> normal_keymap(ev)]

\* Editor::handle_insert_event
handle_insert_event(s, ev) ==
    [s |-> s,
     action |-> IF ev.type # "Key" THEN NoAction
                ELSE IF ev.code = "Esc" THEN EnterMode("Normal")
                ELSE IF ev.code = "Enter" THEN Act("NewLine")
                ELSE IF is_char(ev.code) THEN InsertCharAtCursorPos(ev.code)
                ELSE NoAction]

\* handle_event that returns on a resize before the mode sees the event
handle_event_m(s, ev) ==
    IF ev.type = "Resize" THEN [s |-> [s EXCEPT !.size = ev.size], action |-> NoAction]
    ELSE IF s.mode = "Normal" THEN handle_normal_event(s, ev)
                              ELSE handle_insert_event(s, ev)

\* Editor::handle_event; terminal::size() answers the size the event reports
handle_event(s, ev) ==
    LET s1 == IF ev.type = "Resize" THEN [s EXCEPT !.size = ev.size] ELSE s
    IN IF s1.mode = "Normal" THEN handle_normal_event(s1, ev)
                             ELSE handle_insert_event(s1, ev)

(* ------------------------------ execute ------------------------------- *)
\* x += 1 on the u16 field cx or cy
inc_u16(v) == [v |-> wrap_u16(v + 1), ovf |-> overflows_u16(v + 1)]

MoveUp(s) ==
    IF s.cy = 0
    THEN IF s.vtop > 0 THEN [s EXCEPT !.vtop = s.vtop - 1] ELSE s
    ELSE [s EXCEPT !.cy = saturating_sub(s.cy, 1)]

MoveDown(s) ==
    LET s1 == [s EXCEPT !.cy = inc_u16(s.cy).v, !.ovf = inc_u16(s.cy).ovf]
    IN IF s1.cy >= vheight(s1)
       THEN [s1 EXCEPT !.vtop = s1.vtop + 1,
                       !.cy = wrap_u16(s1.cy - 1),
                       !.ovf = s1.ovf \/ overflows_u16(s1.cy - 1)]
       ELSE s1

MoveLeft(s) ==
    LET s1 == [s EXCEPT !.cx = saturating_sub(s.cx, 1)]
    IN IF s1.cx < s1.vleft THEN [s1 EXCEPT !.cx = s1.vleft] ELSE s1

MoveRight(s) == [s EXCEPT !.cx = inc_u16(s.cx).v, !.ovf = inc_u16(s.cx).ovf]

MoveToLineStart(s) == [s EXCEPT !.cx = 0]

MoveToLineEnd(s) == [s EXCEPT !.cx = saturating_sub(line_length(s), 1)]

PageUp(s) ==
    IF s.vtop > 0
    THEN [s EXCEPT !.vtop = saturating_sub(s.vtop, vheight(s))]
    ELSE s

\* PageDown with >= for >
PageDown_m(s) ==
    IF Len(s.lines) >= s.vtop + vheight(s)
    THEN [s EXCEPT !.vtop = s.vtop + vheight(s)]
    ELSE s

PageDown(s) ==
    IF Len(s.lines) > s.vtop + vheight(s)
    THEN [s EXCEPT !.vtop = s.vtop + vheight(s)]
    ELSE s

InsertChar(s, c) ==
    LET r == insert(s.lines, s.cx, buffer_line(s), c)
    IN IF r.panic THEN [s EXCEPT !.panic = TRUE]
       ELSE [s EXCEPT !.lines = r.lines,
                      !.cx = inc_u16(s.cx).v, !.ovf = inc_u16(s.cx).ovf]

DeleteCharAtCursorPos(s) ==
    LET r == remove(s.lines, s.cx, buffer_line(s))
    IN IF r.panic THEN [s EXCEPT !.panic = TRUE]
       ELSE [s EXCEPT !.lines = r.lines]

\* NewLine that also opens an empty line below the cursor
NewLine_m(s) ==
    [s EXCEPT !.lines = insert_line(s.lines, buffer_line(s) + 1, <<>>),
              !.cx = 0, !.cy = inc_u16(s.cy).v, !.ovf = inc_u16(s.cy).ovf]

NewLine(s) == [s EXCEPT !.cx = 0, !.cy = inc_u16(s.cy).v, !.ovf = inc_u16(s.cy).ovf]

\* DeleteCurrentLine that pushes the inverse only when there was a line
DeleteCurrentLine_m(s) ==
    LET line == buffer_line(s)
        contents == current_line_contents(s)
    IN [s EXCEPT !.lines = remove_line(s.lines, buffer_line(s)),
                 !.undo_actions = IF contents.some
                                  THEN Append(s.undo_actions, InsertLineAt(line, contents))
                                  ELSE s.undo_actions]

DeleteCurrentLine(s) ==
    LET line == buffer_line(s)
        contents == current_line_contents(s)
    IN [s EXCEPT !.lines = remove_line(s.lines, buffer_line(s)),
                 !.undo_actions = Append(s.undo_actions, InsertLineAt(line, contents))]

InsertLine(s, y, contents) ==
    IF contents.some
    THEN [s EXCEPT !.lines = insert_line(s.lines, y, contents.val),
                   !.cy = wrap_u16(y)]
    ELSE s

\* MoveLineToViewportCenter with a plain subtraction for saturating_sub
MoveLineToViewportCenter_m(s) ==
    LET viewport_center == vheight(s) \div 2
        distance_to_center == s.cy - viewport_center
    IN IF distance_to_center > 0
       THEN IF s.vtop > distance_to_center
            THEN [s EXCEPT !.vtop = s.vtop + distance_to_center,
                           !.cy = viewport_center]
            ELSE s
       ELSE IF distance_to_center < 0
       THEN LET dist == -distance_to_center
                new_vtop == s.vtop - dist
                distance_to_go == s.vtop + dist
            IN IF Len(s.lines) > distance_to_go /\ new_vtop # s.vtop
               THEN [s EXCEPT !.vtop = new_vtop, !.cy = viewport_center]
               ELSE s
       ELSE s

MoveLineToViewportCenter(s) ==
    LET viewport_center == vheight(s) \div 2
        distance_to_center == s.cy - viewport_center
    IN IF distance_to_center > 0
       THEN IF s.vtop > distance_to_center
            THEN [s EXCEPT !.vtop = s.vtop + distance_to_center,
                           !.cy = viewport_center]
            ELSE s
       ELSE IF distance_to_center < 0
       THEN LET dist == -distance_to_center
                new_vtop == saturating_sub(s.vtop, dist)
                distance_to_go == s.vtop + dist
            IN IF Len(s.lines) > distance_to_go /\ new_vtop # s.vtop
               THEN [s EXCEPT !.vtop = new_vtop, !.cy = viewport_center]
               ELSE s
       ELSE s

\* Editor::execute
RECURSIVE execute(_, _)
execute(s, action) ==
    CASE action.type = "Quit" -> s
      [] action.type = "MoveUp" -> MoveUp(s)
      [] action.type = "MoveDown" -> MoveDown(s)
      [] action.type = "MoveLeft" -> MoveLeft(s)
      [] action.type = "MoveRight" -> MoveRight(s)
      [] action.type = "MoveToLineStart" -> MoveToLineStart(s)
      [] action.type = "MoveToLineEnd" -> MoveToLineEnd(s)
      [] action.type = "PageUp" -> PageUp(s)
      [] action.type = "PageDown" -> PageDown(s)
      [] action.type = "EnterMode" -> [s EXCEPT !.mode = action.mode]
      [] action.type = "InsertCharAtCursorPos" -> InsertChar(s, action.c)
      [] action.type = "DeleteCharAtCursorPos" -> DeleteCharAtCursorPos(s)
      [] action.type = "NewLine" -> NewLine(s)
      [] action.type = "SetWaitingCmd" -> [s EXCEPT !.waiting_command = action.c]
      [] action.type = "DeleteCurrentLine" -> DeleteCurrentLine(s)
      [] action.type = "Undo" ->
            IF s.undo_actions # <<>>
            THEN execute([s EXCEPT !.undo_actions =
                              SubSeq(s.undo_actions, 1, Len(s.undo_actions) - 1)],
                         s.undo_actions[Len(s.undo_actions)])
            ELSE s
      [] action.type = "InsertLineAt" -> InsertLine(s, action.y, action.contents)
      [] action.type = "MoveLineToViewportCenter" -> MoveLineToViewportCenter(s)

\* one turn of the loop of Editor::run after the draw: the event is handled
\* and the Action it produced, unless it is Quit, is executed
run_cycle(s, ev) ==
    LET h == handle_event(s, ev)
    IN IF h.action.type \in {"None", "Quit"} THEN h.s ELSE execute(h.s, h.action)

(* --------------------------- the state machine ------------------------ *)
Alphabet == AsciiChars \cup {WideChar}
Widths == {NarrowWidth, WideWidth}
Heights == {ReservedRows + v : v \in 1 .. MaxVHeight}
Strings == ValidStrings(MaxBytes)

\* the bytes of a sequence of lines
RECURSIVE Bytes(_)
Bytes(ls) == IF ls = <<>> THEN 0 ELSE Len(Head(ls)) + Bytes(Tail(ls))
\* the lines the undo stack keeps
RECURSIVE Kept(_)
Kept(stack) ==
    IF stack = <<>> THEN <<>>
    ELSE (IF Head(stack).contents.some THEN <<Head(stack).contents.val>> ELSE <<>>)
         \o Kept(Tail(stack))

\* the files the buffer is loaded from (no file, or an empty one, gives no line)
Files == {f \in UNION {[1 .. n -> Strings] : n \in 0 .. MaxLines} : Bytes(f) <= MaxBytes}

\* the events the terminal sends
Events ==
    {Key(c, "NONE") : c \in {"q", "u", "k", "j", "h", "l", "i", "0", "$", "x",
                              "d", "g", "f", "Esc", "Enter", "Tab", WideChar}}
    \cup {Key("b", "CONTROL"), Key("f", "CONTROL")}
    \cup {Resize(w, h) : w \in Widths, h \in Heights}
    \cup {FocusGained}

\* the input the model follows: any while the buffer has a line (without one
\* no pass clamps the cursor any more), typing chars of the alphabet while
\* the text stays within MaxBytes, deleting lines while the undo stack has
\* room
Bounded(ev) ==
    /\ lines # <<>>
    /\ (mode = "Insert" /\ ev.type = "Key" /\ is_char(ev.code)) =>
        /\ ev.code \in Alphabet
        /\ Bytes(run_cycle(Self, ev).lines) + Bytes(Kept(undo_actions)) <= MaxBytes
    /\ handle_event(Self, ev).action.type = "DeleteCurrentLine" =>
           Len(undo_actions) < MaxUndo

\* files of empty lines, and the terminals they are scrolled on
NavFiles == {[i \in 1 .. n |-> <<>>] : n \in 1 .. NavMaxLines}
NavHeights == {ReservedRows + v : v \in 1 .. NavMaxVHeight}

\* the keys of Navigation mode that move, scroll, delete lines and undo
NavEvents ==
    {Key(c, "NONE") : c \in {"u", "k", "j", "d", "g", "Tab"}}
    \cup {Key("b", "CONTROL"), Key("f", "CONTROL")}
    \cup {Resize(WideWidth, h) : h \in NavHeights}

\* the history of a cycle that is not followed
NoPre ==
    [lines |-> <<>>, size |-> <<0, 0>>, vtop |-> 0, vleft |-> 0, cx |-> 0, cy |-> 0,
     mode |-> "", waiting_command |-> "", undo_actions |-> <<>>,
     ovf |-> FALSE, panic |-> FALSE]
NoLast == [ev |-> NoEvent, action |-> Act("Untracked")]
\* what the history keeps of the input that follows the leader cmd: the key
\* if it is the one that completes the leader, else only that it is another
OtherInput == [type |-> "Other", code |-> "", mods |-> "NONE", size |-> <<0, 0>>]
second_input(cmd, ev) ==
    IF ev.type = "Key" /\ ev.code = cmd THEN Key(cmd, "NONE") ELSE OtherInput

\* the terminal after Editor::new: enable_raw_mode and EnterAlternateScreen
new_terminal == [raw_mode |-> TRUE, alternate_screen |-> TRUE]

\* Editor::cleanup: EnterAlternateScreen, then disable_raw_mode
cleanup(term) == [[term EXCEPT !.alternate_screen = TRUE] EXCEPT !.raw_mode = FALSE]

\* Editor::new
Init ==
    /\ lines \in Files
    /\ size \in Widths \X Heights
    /\ vtop = 0
    /\ vleft = 0
    /\ cx = 0
    /\ cy = 0
    /\ mode = "Normal"
    /\ waiting_command = "None"
    /\ undo_actions = <<>>
    /\ terminal = new_terminal
    /\ pc = "check_bounds"
    /\ last = NoLast
    /\ pre = NoPre

\* Editor::new on a file of empty lines
InitNav ==
    /\ lines \in NavFiles
    /\ size \in {WideWidth} \X NavHeights
    /\ vtop = 0
    /\ vleft = 0
    /\ cx = 0
    /\ cy = 0
    /\ mode = "Normal"
    /\ waiting_command = "None"
    /\ undo_actions = <<>>
    /\ terminal = new_terminal
    /\ pc = "check_bounds"
    /\ last = NoLast
    /\ pre = NoPre

Commit(r) ==
    /\ lines' = r.lines
    /\ size' = r.size
    /\ vtop' = r.vtop
    /\ vleft' = r.vleft
    /\ cx' = r.cx
    /\ cy' = r.cy
    /\ mode' = r.mode
    /\ waiting_command' = r.waiting_command
    /\ undo_actions' = r.undo_actions

Editor == <<lines, size, vtop, vleft, cx, cy, mode, waiting_command, undo_actions>>

\* run: self.check_bounds().  The history of a cycle that was kept without
\* the state it started in ends here.
CheckBoundsStep ==
    /\ pc = "check_bounds"
    /\ LET r == check_bounds(Self)
       IN \/ r.ovf /\ pc' = "panicked_check_bounds" /\ UNCHANGED Editor
          \/ Commit(r) /\ pc' = "draw"
    /\ IF pre = NoPre THEN last' = NoLast ELSE UNCHANGED last
    /\ UNCHANGED <<pre, terminal>>

\* run: self.draw()?, self.handle_event(read()?)?, then break on Quit or
\* self.execute(&action).  The history keeps the cycles whose Action or
\* whose type of event is one of tracked and, without the state they start
\* in, those that start with a leader of tracked pending (of their input it
\* keeps second_input).
HandleEventStep(ev, tracked) ==
    /\ pc = "draw"
    /\ Bounded(ev)
    /\ LET action == handle_event(Self, ev).action
           r == run_cycle(Self, ev)
           history ==
               IF action.type \in tracked \/ ev.type \in tracked
               THEN last' = [ev |-> ev, action |-> action] /\ pre' = Self
               ELSE IF waiting_command \in tracked
               THEN /\ last' = [ev |-> second_input(waiting_command, ev), action |-> action]
                    /\ pre' = NoPre
               ELSE last' = NoLast /\ pre' = NoPre
       IN \/ draw(Self).ovf /\ pc' = "panicked_draw" /\ UNCHANGED <<Editor, last, pre>>
          \/ (r.panic \/ r.ovf) /\ pc' = "panicked_execute" /\ UNCHANGED Editor /\ history
          \/ /\ ~r.panic
             /\ Commit(r)
             /\ pc' = IF action.type = "Quit" THEN "quit" ELSE "check_bounds"
             /\ history
    /\ UNCHANGED terminal

\* the editor under the events evs
Run(evs, tracked) ==
    \/ CheckBoundsStep
    \/ \E ev \in evs : HandleEventStep(ev, tracked)

\* every event, no history
Next == Run(Events, {})
Spec == Init /\ [][Next]_vars

\* MoveUp and MoveDown alone, by either of their keys
UpDownEvents == {Key(c, "NONE") : c \in {"k", "j", "Up", "Down"}}
NextUpDown == Run(UpDownEvents, {})
SpecUpDown == Init /\ [][NextUpDown]_vars

\* MoveUp and MoveDown alone, the history of MoveDown
NextDown == Run(UpDownEvents, {"MoveDown"})
SpecDown == Init /\ [][NextDown]_vars

\* every event, the history of line deletions and undos
NextUndo == Run(Events, {"DeleteCurrentLine", "Undo"})
SpecUndo == Init /\ [][NextUndo]_vars

\* the same on the files of empty lines
NextUndoNav == Run(NavEvents, {"DeleteCurrentLine", "Undo"})
SpecUndoNav == InitNav /\ [][NextUndoNav]_vars

\* every event, the history of the cycles that start with the leader d pending
NextLeader == Run(Events, {"d"})
SpecLeader == Init /\ [][NextLeader]_vars

\* every event, the history of the insertions
NextInsert == Run(Events, {"InsertCharAtCursorPos"})
SpecInsert == Init /\ [][NextInsert]_vars

\* the files of empty lines, the history of PageDown
NextPageDown == Run(NavEvents, {"PageDown"})
SpecPageDown == InitNav /\ [][NextPageDown]_vars

\* the files of empty lines, the history of MoveLineToViewportCenter
NextCenter == Run(NavEvents, {"MoveLineToViewportCenter"})
SpecCenter == InitNav /\ [][NextCenter]_vars

\* one terminal, tall and wide, and its one resize, to the shortest
TallSize == <<WideWidth, ReservedRows + MaxVHeight>>
ShortSize == <<WideWidth, ReservedRows + 1>>
InitTall == Init /\ size = TallSize
EventsOneResize == {ev \in Events : ev.type = "Resize" => ev.size = ShortSize}

\* every event on that terminal, the history of the mode switches
NextMode == Run(EventsOneResize, {"EnterMode"})
SpecMode == InitTall /\ [][NextMode]_vars

\* every event on that terminal, the history of the resizes
NextResize == Run(EventsOneResize, {"Resize"})
SpecResize == InitTall /\ [][NextResize]_vars

\* every event on that terminal, the history of the deletions of a char
NextDeleteChar == Run(EventsOneResize, {"DeleteCharAtCursorPos"})
SpecDeleteChar == InitTall /\ [][NextDeleteChar]_vars

\* every event on that terminal, the history of the cycles that start with
\* a leader pending
NextLeaders == Run(EventsOneResize, {"d", "g"})
SpecLeaders == InitTall /\ [][NextLeaders]_vars

\* every event on that terminal, the history of line deletions and undos
NextUndoStack == Run(EventsOneResize, {"DeleteCurrentLine", "Undo"})
SpecUndoStack == InitTall /\ [][NextUndoStack]_vars

\* the Actions that move the cursor, scroll, or switch mode or leader
Motions ==
    {"MoveUp", "MoveDown", "MoveLeft", "MoveRight", "MoveToLineStart", "MoveToLineEnd",
     "PageUp", "PageDown", "NewLine", "EnterMode", "SetWaitingCmd",
     "MoveLineToViewportCenter"}
\* the Actions that edit
Edits == {"InsertCharAtCursorPos", "DeleteCharAtCursorPos", "DeleteCurrentLine", "Undo"}

\* every event on that terminal, the history of the motions
NextFrame == Run(EventsOneResize, Motions)
SpecFrame == InitTall /\ [][NextFrame]_vars

\* every event, the history of the moves, the undos and the leaders
NextBoundary ==
    Run(Events, {"MoveUp", "MoveDown", "MoveLeft", "MoveRight", "Undo", "d", "g"})
SpecBoundary == Init /\ [][NextBoundary]_vars

\* the caller of Editor::run: whichever way the run ends, by Quit or by a
\* termination inside a cycle, Editor::cleanup is called
CleanupStep ==
    /\ pc \in {"quit", "panicked_check_bounds", "panicked_draw", "panicked_execute"}
    /\ terminal' = cleanup(terminal)
    /\ pc' = "exited"
    /\ UNCHANGED <<Editor, last, pre>>

\* every event, then the exit
NextExit == Run(Events, {}) \/ CleanupStep
SpecExit == Init /\ [][NextExit]_vars

(* ------------------------- the Buffer on its own ---------------------- *)
\* Buffer::from_file; of the editor around it only the history is used
InitBuffer ==
    /\ lines \in Files
    /\ size = TallSize
    /\ vtop = 0
    /\ vleft = 0
    /\ cx = 0
    /\ cy = 0
    /\ mode = "Normal"
    /\ waiting_command = "None"
    /\ undo_actions = <<>>
    /\ terminal = new_terminal
    /\ pc = "buffer"
    /\ last = NoLast
    /\ pre = NoPre

\* the rows and columns the methods are called with, past the ends included
Rows == 0 .. MaxLines + 1
Columns == 0 .. MaxBytes

\* a call of the method named method with row y that ends with the lines
\* r.lines or in a panic; the history keeps the call and the lines before it
Call(method, y, r) ==
    /\ pc = "buffer"
    /\ Len(r.lines) <= MaxLines
    /\ Bytes(r.lines) <= MaxBytes
    /\ IF r.panic
       THEN pc' = "panicked_buffer" /\ UNCHANGED lines
       ELSE pc' = "buffer" /\ lines' = r.lines
    /\ last' = [ev |-> NoEvent, action |-> [Act(method) EXCEPT !.y = y]]
    /\ pre' = [NoPre EXCEPT !.lines = lines]
    /\ UNCHANGED <<size, vtop, vleft, cx, cy, mode, waiting_command, undo_actions,
                   terminal>>

BufferInsert ==
    \E x \in Columns, y \in Rows, c \in Alphabet : Call("insert", y, insert(lines, x, y, c))
BufferRemove ==
    \E x \in Columns, y \in Rows : Call("remove", y, remove(lines, x, y))
BufferRemoveLine ==
    \E y \in Rows : Call("remove_line", y, [lines |-> remove_line(lines, y), panic |-> FALSE])
BufferInsertLine ==
    \E y \in Rows, contents \in Strings :
        Call("insert_line", y, [lines |-> insert_line(lines, y, contents), panic |-> FALSE])

NextBuffer == BufferInsert \/ BufferRemove \/ BufferRemoveLine \/ BufferInsertLine
SpecBuffer == InitBuffer /\ [][NextBuffer]_vars

(* ------------------------------ properties ---------------------------- *)
\* this step executes Undo in the cycle after the one that executed
\* DeleteCurrentLine with the cursor on a line of a buffer; pre is the editor
\* before the deletion
UndoRightAfterDelete ==
    /\ pc = "draw"
    /\ pc' = "check_bounds"
    /\ last.action.type = "DeleteCurrentLine"
    /\ last'.action.type = "Undo"
    /\ pre.vtop + pre.cy < Len(pre.lines)

\* C1: DeleteCurrentLine on any row of a non-empty buffer (the last one
\* included), the bounds pass, then Undo, leave the buffer as it was before
\* the deletion.  Stated for the unscrolled viewport, where the bounds pass
\* between the two overflows nowhere.
C1_UndoRestoresBuffer ==
    [][(UndoRightAfterDelete /\ pre.vtop = 0) => lines' = pre.lines]_vars

\* C2: after DeleteCurrentLine at absolute row r and the Undo right after it,
\* vertical scroll offset + cursor row = r, whatever the scroll offset.
\* Stated for the rows above the last one, which Undo does restore.
C2_UndoParksCursor ==
    [][(UndoRightAfterDelete /\ pre.vtop + pre.cy < Len(pre.lines) - 1)
           => vtop' + cy' = pre.vtop + pre.cy]_vars

\* the bounds pass of the cycle has run and the render has not
AfterBounds == pc = "draw"
Min(a, b) == IF a < b THEN a ELSE b

\* C3: under MoveUp and MoveDown alone, on a non-empty buffer and a viewport
\* of height >= 1, vertical scroll offset + cursor row is in
\* [0, buffer line count - 1] after every bounds pass.
C3_UpDownStayOnBuffer ==
    (AfterBounds /\ lines # <<>> /\ vheight(Self) >= 1) =>
        (0 <= vtop + cy /\ vtop + cy <= Len(lines) - 1)

\* C4: under every sequence of key events, while the buffer has a line, the
\* bounds pass leaves vertical scroll offset + cursor row <= buffer line
\* count - 1, and buffer line count - vertical scroll offset - 1 >= 0.
C4_BoundsPassKeepsRowOnBuffer ==
    (AfterBounds /\ lines # <<>>) =>
        (vtop + cy <= Len(lines) - 1 /\ Len(lines) - vtop - 1 >= 0)

\* C5: after the bounds pass of every input cycle the cursor row is in
\* [0, viewport height).
C5_RowInsideViewport ==
    AfterBounds => (0 <= cy /\ cy < vheight(Self))

\* the chars of a line (str::chars().count()): the bytes that start one
char_count(str) == Cardinality({i \in 1 .. Len(str) : str[i] # ContByte})

\* C6: after the bounds pass of every input cycle on a non-empty buffer with
\* viewport width >= 1, the cursor column is in [0, min(L, viewport width) - 1]
\* for the length L, in chars, of the line the cursor row is on after the
\* pass, and 0 if that line is empty (or the row holds no line).
C6_ColumnInsideLine ==
    (AfterBounds /\ lines # <<>> /\ vwidth(Self) >= 1) =>
        LET line == viewport_line(Self, cy)
            L == IF line.some THEN char_count(line.val) ELSE 0
        IN IF L = 0 THEN cx = 0
           ELSE 0 <= cx /\ cx <= Min(L, vwidth(Self)) - 1

\* the cycle that read last.ev has handled it and nothing has run since
JustHandled ==
    /\ last.action.type # "Untracked"
    /\ pc \in {"check_bounds", "quit", "panicked_execute"}

\* C7: in Navigation mode, an input other than the key d that follows the
\* leader d produces no Action, changes neither buffer, cursor, offsets nor
\* undo stack, and leaves no leader pending and the mode Navigation.
C7_UnmatchedLeaderIsDropped ==
    [][(pc = "draw" /\ waiting_command = "d" /\ pc' # "panicked_draw"
            /\ last'.ev = OtherInput) =>
           /\ pc' = "check_bounds"
           /\ last'.action = NoAction
           /\ UNCHANGED <<lines, cx, cy, vtop, vleft, undo_actions>>
           /\ waiting_command' = "None"
           /\ mode = "Normal" /\ mode' = "Normal"]_vars

\* C7 happens: the leader d was dropped by an input other than d, with the
\* cursor on a char that x would delete, below a line that k would move to,
\* and with a line on the undo stack that u would bring back
C7_Witness ==
    /\ pc = "check_bounds"
    /\ last = [ev |-> OtherInput, action |-> NoAction]
    /\ vtop + cy < Len(lines)
    /\ cx < Len(lines[vtop + cy + 1])
    /\ vtop + cy > 0
    /\ undo_actions # <<>>

\* C8: PageDown leaves the vertical scroll offset alone when buffer line
\* count <= offset + viewport height and otherwise adds exactly the viewport
\* height to it; the buffer is unchanged either way.
C8_PageDown ==
    (JustHandled /\ last.action.type = "PageDown") =>
        /\ pc = "check_bounds"
        /\ lines = pre.lines
        /\ vtop = IF Len(pre.lines) <= pre.vtop + vheight(pre)
                  THEN pre.vtop
                  ELSE pre.vtop + vheight(pre)

\* C8 happens: a second page down that scrolls
C8_Witness ==
    /\ JustHandled
    /\ last.action.type = "PageDown"
    /\ pre.vtop > 0
    /\ vtop = pre.vtop + vheight(pre)

\* the editor as the tracked cycle found it had the cursor on the char
\* boundary or inside the line s
OnLine(p) == p.vtop + p.cy < Len(p.lines)

\* C9: InsertCharAtCursor(c) with cursor column k on an existing line s,
\* 0 <= k <= length of s, replaces the line by s[0..k] + c + s[k..], leaves
\* the other lines and the line count alone and adds exactly 1 to the cursor
\* column.
C9_InsertChar ==
    (JustHandled /\ last.action.type = "InsertCharAtCursorPos"
         /\ OnLine(pre) /\ pre.cx <= Len(pre.lines[pre.vtop + pre.cy + 1])) =>
        LET r == pre.vtop + pre.cy + 1
            s == pre.lines[r]
            k == pre.cx
        IN /\ pc = "check_bounds"
           /\ lines = [pre.lines EXCEPT ![r] =
                           SubSeq(s, 1, k) \o Encode(last.action.c) \o SubSeq(s, k + 1, Len(s))]
           /\ cx = pre.cx + 1

Max(a, b) == IF a > b THEN a ELSE b

\* C10: MoveLineToViewportCenter never leaves a negative vertical scroll
\* offset: with the cursor above the center the offset it sets is the old
\* one less the distance to the center, floored at 0.
C10_CenterKeepsOffsetNonNegative ==
    (JustHandled /\ last.action.type = "MoveLineToViewportCenter") =>
        LET center == vheight(pre) \div 2
        IN /\ pc = "check_bounds"
           /\ vtop >= 0
           /\ (pre.cy < center /\ vtop # pre.vtop) =>
                  vtop = Max(0, pre.vtop - (center - pre.cy))

\* C10 happens: a buffer with fewer lines than the viewport is high, the
\* cursor above the center by more than the offset, and the offset floored
C10_Witness ==
    /\ JustHandled
    /\ last.action.type = "MoveLineToViewportCenter"
    /\ Len(pre.lines) < vheight(pre)
    /\ pre.cy < vheight(pre) \div 2
    /\ pre.vtop > 0
    /\ pre.vtop < vheight(pre) \div 2 - pre.cy
    /\ vtop = 0

\* the run has panicked in the Action of a cycle or in the bounds pass after it
Aborted == pc \in {"panicked_execute", "panicked_check_bounds"}

\* the cycle that last ran met one of the boundary conditions
AtBoundary ==
    \/ last.action.type = "MoveUp" /\ pre.vtop + pre.cy = 0
    \/ last.action.type = "MoveLeft" /\ pre.cx = 0
    \/ last.action.type = "MoveDown" /\ pre.vtop + pre.cy = Len(pre.lines) - 1
    \/ last.action.type = "MoveRight" /\ pre.cx + 1 >= line_length(pre)
    \/ last.action.type = "Undo" /\ pre.undo_actions = <<>>
    \/ last.ev = OtherInput

\* C11: on a non-empty buffer (of fewer lines than the viewport height or
\* not), MoveUp on the first line, MoveLeft at column 0, MoveDown on the last
\* line, MoveRight at the end of a line, Undo with an empty undo stack and an
\* unmatched second key after a leader never abort the run, neither in the
\* Action nor in the bounds pass that follows.
C11_BoundaryConditionsNeverAbort ==
    (AtBoundary /\ lines # <<>>) => ~Aborted

\* the mode that the transition table gives after the event ev
mode_table(ev) ==
    IF mode = "Normal" /\ waiting_command = "None" /\ ev = Key("i", "NONE")
    THEN "Insert"
    ELSE IF mode = "Insert" /\ ev.type = "Key" /\ ev.code = "Esc"
    THEN "Normal"
    ELSE mode

\* C12: the mode starts as Navigation; it changes only from Navigation to
\* Insertion on the key i with no leader pending and from Insertion to
\* Navigation on Escape, and every other input in either mode leaves it as
\* it is (in Insertion mode also the keys q, u, g, ... whose typing is not
\* followed beyond the mode they leave).
C12_ModeTransitions ==
    /\ mode = "Normal"
    /\ [][mode' # mode =>
              /\ last'.action.type = "EnterMode"
              /\ mode' = mode_table(last'.ev)]_vars
    /\ [](pc = "draw" /\ mode = "Insert" =>
              \A ev \in EventsOneResize :
                  ~Bounded(ev) => run_cycle(Self, ev).mode = mode_table(ev))

\* C12 happens: Escape has brought Insertion mode back to Navigation
C12_Witness ==
    /\ pc = "check_bounds"
    /\ last.ev = Key("Esc", "NONE")
    /\ pre.mode = "Insert"
    /\ mode = "Normal"

\* C13: on every exit path, the Quit action or a termination inside a cycle,
\* the terminal acquired at startup is released: raw mode is disabled and the
\* alternate screen is left.
C13_TerminalReleasedOnExit ==
    pc = "exited" => ~terminal.raw_mode /\ ~terminal.alternate_screen

\* C14: insert, remove, remove_line and insert_line called with a row that is
\* no index of the buffer (row >= line count) return normally and leave the
\* buffer as it was; so insert_line at the line count does not append.  get
\* answers None for exactly those rows.
C14_OutOfRangeRowIsNoOp ==
    /\ last.action.type \in {"insert", "remove", "remove_line", "insert_line"}
       /\ last.action.y >= Len(pre.lines)
           => pc = "buffer" /\ lines = pre.lines
    /\ \A row \in Rows : ~get(lines, row).some <=> row >= Len(lines)
C14_Witness ==
    /\ pc = "buffer"
    /\ last.action.type = "insert_line"
    /\ pre.lines # <<>>
    /\ last.action.y = Len(pre.lines)
    /\ Len(lines) < MaxLines

\* the cycle that has just ended handled a resize
JustResized == pc = "check_bounds" /\ last.ev.type = "Resize"

\* C15, as claimed: a resize, in either mode and with or without a leader
\* pending, produces no Action and changes nothing but the stored size:
\* buffer, cursor, scroll offsets, mode, pending leader and undo stack are
\* as before.
C15_ResizeChangesOnlySize ==
    /\ last.ev.type = "Resize" => pc # "panicked_execute" /\ last.action = NoAction
    /\ JustResized =>
           /\ size = last.ev.size
           /\ lines = pre.lines
           /\ cx = pre.cx /\ cy = pre.cy
           /\ vtop = pre.vtop /\ vleft = pre.vleft
           /\ mode = pre.mode
           /\ undo_actions = pre.undo_actions
           /\ waiting_command = pre.waiting_command

\* C15, amended: a resize, in either mode, produces no Action and changes
\* nothing but the stored size and the pending leader, which it clears:
\* buffer, cursor, scroll offsets, mode and undo stack are as before.
C15_ResizeChangesSizeAndDropsLeader ==
    /\ last.ev.type = "Resize" => pc # "panicked_execute" /\ last.action = NoAction
    /\ JustResized =>
           /\ size = last.ev.size
           /\ lines = pre.lines
           /\ cx = pre.cx /\ cy = pre.cy
           /\ vtop = pre.vtop /\ vleft = pre.vleft
           /\ mode = pre.mode
           /\ undo_actions = pre.undo_actions
           /\ waiting_command = "None"
C15_Witness ==
    /\ JustResized
    /\ pre.waiting_command = "g"
    /\ pre.size # size
    /\ pre.undo_actions # <<>>
    /\ pre.cy > 0

\* C16: whenever DeleteCharAtCursorPos is executed with the cursor on a line
\* of the buffer, the cursor column is an occupied position of that line:
\* cx < length of the line at vtop + cy, the empty line included.
C16_DeleteCharOnOccupiedColumn ==
    (last.action.type = "DeleteCharAtCursorPos" /\ OnLine(pre)) =>
        pre.cx < Len(pre.lines[pre.vtop + pre.cy + 1])

\* C17: in Insert mode two chars typed in consecutive cycles end up next to
\* each other, the second right after the first; that is, the bounds pass
\* that follows an insertion does not move the cursor column back.  Stated
\* for an insertion on a line of the buffer, at a column of that line, that
\* leaves the cursor inside the width of the viewport.
C17_BoundsPassKeepsColumnAfterInsert ==
    (pc = "draw" /\ last.action.type = "InsertCharAtCursorPos"
         /\ OnLine(pre) /\ pre.cx <= Len(pre.lines[pre.vtop + pre.cy + 1])
         /\ pre.cx + 1 < vwidth(pre)) =>
        cx = pre.cx + 1

\* C18: MoveLineToViewportCenter keeps the cursor on the same line of the
\* buffer: vtop + cy after the action is what it was before, when the action
\* rescrolls (the offset floored at 0 included) and when it does nothing.
C18_CenterKeepsBufferLine ==
    (JustHandled /\ last.action.type = "MoveLineToViewportCenter") =>
        vtop + cy = pre.vtop + pre.cy

\* C19: with the cursor on the last line of the buffer (vtop + cy = line
\* count - 1), MoveDown and the bounds pass after it change neither vtop nor
\* cy, whatever the cursor row, the bottom row of the viewport included.
C19_DownOnLastLineIsNoOp ==
    (last.action.type = "MoveDown" /\ pre.vtop + pre.cy = Len(pre.lines) - 1) =>
        /\ pc \in {"check_bounds", "draw", "panicked_draw"}
        /\ pc # "check_bounds" => vtop = pre.vtop /\ cy = pre.cy

\* C20: a leader is pending only in Navigation mode and for one input event:
\* the event read with a leader pending produces DeleteCurrentLine,
\* MoveLineToViewportCenter or no Action, nothing else, and after it no
\* leader is pending and the mode is still Navigation.
C20_LeaderLastsOneEvent ==
    /\ [](waiting_command # "None" => mode = "Normal")
    /\ [][(pc = "draw" /\ waiting_command # "None" /\ pc' # "panicked_draw") =>
              /\ last'.action.type
                     \in {"DeleteCurrentLine", "MoveLineToViewportCenter", "None"}
              /\ pc' = "check_bounds"
              /\ waiting_command' = "None"
              /\ mode' = "Normal"]_vars
C20_Witness ==
    /\ pc = "check_bounds"
    /\ last.ev = Key("g", "NONE")
    /\ last.action.type = "MoveLineToViewportCenter"
    /\ waiting_command = "None"
    /\ mode = "Normal"
    /\ undo_actions # <<>>

\* the stack without its last entry
Front(stack) == SubSeq(stack, 1, Len(stack) - 1)

C22_MotionsKeepBufferAndUndoStack ==
    /\ []((JustHandled /\ last.action.type \in Motions) =>
              lines = pre.lines /\ undo_actions = pre.undo_actions)
    /\ [][pc = "check_bounds" => UNCHANGED <<lines, undo_actions>>]_vars
    /\ [](pc = "draw" =>
              \A ev \in EventsOneResize :
                  handle_event(Self, ev).action.type \notin Edits =>
                      LET r == run_cycle(Self, ev)
                      IN r.lines = lines /\ r.undo_actions = undo_actions)
C22_Witness ==
    /\ pc = "check_bounds"
    /\ last.action.type = "NewLine"
    /\ cy = pre.cy + 1
    /\ pre.vtop + pre.cy + 1 < Len(pre.lines)
    /\ lines = pre.lines
    /\ pre.undo_actions # <<>>

====
